---- MODULE Spec2Model ----
(***************************************************************************)
(* Model of the telemetry worker of AzureKubeLogger                        *)
(* (src/telemetry_worker.py, src/main.py).                                 *)
(*                                                                         *)
(* Two threads are modelled: the worker thread executing                   *)
(* TelemetryWorker.run() and a controller thread executing                 *)
(* TelemetryWorker.stop().  A provider call is two steps (invocation and   *)
(* outcome) so that a stop request can land while a provider is in flight. *)
(* Durations are kept in milliseconds, the jitter factor in thousandths.   *)
(***************************************************************************)
EXTENDS Integers, Sequences, FiniteSets, TLC

\* ---------------------------------------------------------------- bounds
\* Cycles the scheduler may start before the model stops following it.
MaxCycles == 3

\* ------------------------------------------------------------- constants
\* Fixed backoff after an unexpected error in the loop: time.sleep(5).
BackoffMs == 5000
\* Floor of the inter-cycle sleep: max(1, ...).
FloorMs == 1000
\* random.uniform(-0.1, 0.1), in thousandths.
JitterMilli == 100

\* The five providers, in the order run_simulation_cycle calls them; the
\* names are the keys of all_metrics.
Order == <<"kubernetes", "database", "storage", "network", "system">>

Providers == {Order[i] : i \in 1..Len(Order)}

\* Values of MONITORING_INTERVAL (seconds) that pass Config.validate.
Intervals == {1, 2, 30}

\* Draws of random.uniform(-0.1, 0.1) in thousandths: both ends, zero and
\* one value inside each half.
JitterDraws == {-JitterMilli, -37, 0, 50, JitterMilli}

\* Prefix of the metric names of each provider in send_metric_to_newrelic,
\* in the order of Order: f"k8s.{metric_name}", f"database.{metric_name}", ...
Prefixes == <<"k8s", "database", "storage", "network", "system">>

\* A batch is the sequence of the (name, value) items of the returned dict.
\* Batches a provider call may return: one entry, or two entries; the name
\* total_requests is used by more than one provider.
BatchChoices ==
    { << <<"total_requests", 1>> >>,
      << <<"total_requests", 2>>, <<"health_score", 1>> >> }

\* The batch every provider returns where the contents are not followed.
DefaultBatch == << <<"total_requests", 1>> >>

\* Replicas of the baseline fleet that are followed (23 in the code).
BaselinePods == 2

\* Restarts of one pod that are followed.
MaxRestarts == 2

\* Seconds of the clock that are followed.
MaxClock == 1

\* Rates, percentages and scores are kept in hundredths.
Scale == 100

\* How the providers are stubbed in a run: "none" - every call returns,
\* a provider name - that provider raises on every call and the others
\* return, "any" - every call may return or raise.
Stubs == {"none", "any"} \cup Providers

VARIABLES
    pc,            \* position of the worker thread in run()
    pos,           \* index in Order of the provider being called
    running,       \* TelemetryWorker.running
    cycle_count,   \* local cycle_count of run()
    interval,      \* config.MONITORING_INTERVAL
    sleep_time,    \* the last sleep duration, in ms
    raw_sleep,     \* base_interval + jitter of the last draw, in ms
    pcStop,        \* position of the controller thread in stop()
    forced,        \* the stubbing of the providers
    calls,         \* providers invoked in the current cycle, in call order
    batches,       \* providers whose batch was produced in the current cycle
    forwarded,     \* providers whose metrics were sent to the export sink
    raisedBy,      \* provider that raised in the current cycle, or "none"
    cycleEvents,   \* telemetry_cycle events given to log_structured_event
    summaryEvents, \* TelemetryCycle events given to send_event_to_newrelic
    errorEvents,   \* TelemetryError events given to send_event_to_newrelic
    finished,      \* calls of run_simulation_cycle that have ended
    beganAfterStop,\* a cycle began after stop() had returned
    stopCount,     \* the cycle the stop request landed in, -1 before any
    stopPhase,     \* pc of the worker when the stop request landed
    escaped,       \* the last run_simulation_cycle call ended by an exception
    pending,       \* the exception in flight in the worker thread, or "none"
    errorOf,       \* provider whose exception this cycle's TelemetryError carries
    app,           \* TelemetryWorker.app is set: the export sink is configured
    batchOf,       \* the batch each provider returned in the current cycle
    sent,          \* calls of send_metric_to_newrelic in the current cycle
    recorded,      \* metrics the backend accepted in the current cycle
    cycleData,     \* data of the telemetry_cycle event of the current cycle
    metricsCollected, \* metrics_collected of this cycle's TelemetryCycle, or -1
    evRecorded,    \* events the backend accepted in the current cycle
    unit,          \* the provider whose operations are followed, or "worker"
    pod_states,    \* KubernetesSimulator.pod_states: pod name -> record
    now,           \* int(time.time()), in seconds from the construction
    active_connections, \* DatabaseSimulator.active_connections
    lastBatch,     \* the batch the followed provider returned last
    hostFault,     \* <<category, read>> that failed in the last get_metrics
    svc,           \* position of TelemetryService.start
    cfg,           \* the Config object of the service
    worker         \* TelemetryService.worker is set

vars == <<pc, pos, running, cycle_count, interval, sleep_time, raw_sleep,
          pcStop, forced, calls, batches, forwarded, raisedBy, cycleEvents,
          summaryEvents, errorEvents, finished, beganAfterStop, stopCount,
          stopPhase, escaped, pending, errorOf, app, batchOf, sent, recorded,
          cycleData, metricsCollected, evRecorded, unit, pod_states, now,
          active_connections, lastBatch, hostFault, svc, cfg, worker>>

workerVars == <<pc, pos, cycle_count, sleep_time, raw_sleep, calls, batches,
                forwarded, raisedBy, cycleEvents, summaryEvents, errorEvents,
                finished, beganAfterStop, escaped, pending, errorOf>>

cycleVars == <<calls, batches, forwarded, raisedBy, errorOf>>

eventVars == <<cycleEvents, summaryEvents, errorEvents>>

stopVars == <<pcStop, stopCount, stopPhase>>

detailVars == <<batchOf, sent, recorded, cycleData, metricsCollected,
                evRecorded>>

\* The state of the providers.
provVars == <<unit, pod_states, now, active_connections, lastBatch,
              hostFault>>

\* The state of the service that starts the worker.
startVars == <<svc, cfg, worker>>

\* The state of the worker and of the controller.
threadVars == <<workerVars, running, interval, forced, stopVars, detailVars,
                app, startVars>>

\* Variables no step of the worker or of the controller changes.
otherVars == <<app, provVars, startVars>>

\* No provider has returned a batch.
NoBatches == [p \in Providers |-> <<>>]

Max(a, b) == IF a >= b THEN a ELSE b

\* Positions of the worker inside run_simulation_cycle.
InCycle == {"invoke", "inprov", "log", "summary", "handler"}

\* Positions of the worker inside the try block of the loop body.
InBody == {"body"} \cup InCycle \cup {"sleep", "sleeping"}

\* The first replicas of the baseline fleet, as <<name, i>> for f"{name}-{i}".
BaselineNames == {<<"api-server", i>> : i \in 0..(BaselinePods - 1)}

\* The pod record, by the fields followed here.
Pod(st, rc, cpu, mem) ==
    [state |-> st, restart_count |-> rc, cpu_usage |-> cpu,
     memory_usage |-> mem]

\* A float read from the environment: a number in thousandths, or nan.
Num(x) == <<"num", x>>

NaN == <<"nan", 0>>

\* The enable flag of each provider, in the order of the providers.
FlagNames ==
    <<"ENABLE_K8S_SIMULATION", "ENABLE_DB_SIMULATION",
      "ENABLE_STORAGE_SIMULATION", "ENABLE_NETWORK_SIMULATION",
      "ENABLE_SYSTEM_MONITORING">>

\* str.lower on the values of the environment that are followed.
Lower(s) == IF s \in {"TRUE", "True"} THEN "true" ELSE s

\* os.getenv(name, "true").lower() == "true"
ParseFlag(s) == Lower(s) = "true"

\* The five flags of a configuration, env[i] being what the environment
\* holds for the i-th of them.
Flags(env) ==
    [n \in {FlagNames[i] : i \in 1..Len(FlagNames)} |->
        ParseFlag(env[CHOOSE i \in 1..Len(FlagNames) : FlagNames[i] = n])]

\* Config.__init__ with no variable of the environment set.
DefaultConfig ==
    [MONITORING_INTERVAL |-> 30,
     ERROR_RATE_VARIANCE |-> Num(50),
     PERFORMANCE_VARIANCE |-> Num(200),
     LOG_LEVEL |-> "INFO",
     NEW_RELIC_LICENSE_KEY |-> ""]
      @@ Flags([i \in 1..Len(FlagNames) |-> "true"])

\* No read of the host provider has failed.
NoFault == <<"none", 0>>

\* A dict without entries.
EmptyDict == [n \in {} |-> 0]

\* The providers as the worker's steps see them: constructed, their
\* operations not followed.
ProvidersIdle ==
    /\ unit = "worker"
    /\ pod_states = [n \in BaselineNames |-> Pod("Running", 0, 10, 100)]
    /\ now = 0
    /\ active_connections = 5
    /\ lastBatch = EmptyDict
    /\ hostFault = NoFault

\* TelemetryWorker.__init__: running is False, the five providers exist,
\* run() has not been entered; self.app is set when the New Relic agent is
\* importable and config.NEW_RELIC_ENABLED holds.
WorkerFields(configured) ==
    /\ pc = "idle"
    /\ pos = 0
    /\ running = FALSE
    /\ cycle_count = 0
    /\ sleep_time = 0
    /\ raw_sleep = 0
    /\ pcStop = "idle"
    /\ calls = <<>>
    /\ batches = {}
    /\ forwarded = {}
    /\ raisedBy = "none"
    /\ cycleEvents = 0
    /\ summaryEvents = 0
    /\ errorEvents = 0
    /\ finished = 0
    /\ beganAfterStop = FALSE
    /\ stopCount = -1
    /\ stopPhase = "none"
    /\ escaped = FALSE
    /\ pending = "none"
    /\ errorOf = "none"
    /\ app = configured
    /\ batchOf = NoBatches
    /\ sent = <<>>
    /\ recorded = 0
    /\ cycleData = NoBatches
    /\ metricsCollected = -1
    /\ evRecorded = 0

\* The service as it is once the worker thread has been started: the
\* configuration passed validation and is the worker's.
Started ==
    /\ svc = "running"
    /\ worker = TRUE
    /\ cfg = [DefaultConfig EXCEPT !.MONITORING_INTERVAL = interval]

\* The worker after construction, for the intervals and the provider stubs
\* that are followed.
WorkerIdle(configured) ==
    /\ WorkerFields(configured)
    /\ interval \in Intervals
    /\ forced \in Stubs
    /\ Started

\* The worker and its five providers after construction.
Constructed(configured) == WorkerIdle(configured) /\ ProvidersIdle

\* The worker of the default configuration: NEW_RELIC_LICENSE_KEY is empty,
\* so NEW_RELIC_ENABLED is False and self.app is None.
Init == Constructed(FALSE)

\* The worker with or without a configured sink.
InitCycle == \E configured \in BOOLEAN : Constructed(configured)

\* ------------------------------------------------------------ run()
\* run(), before the loop: self.running = True; cycle_count = 0.
RunStart ==
    /\ pc = "idle"
    /\ running' = TRUE
    /\ cycle_count' = 0
    /\ pc' = "check"
    /\ UNCHANGED <<pos, interval, sleep_time, raw_sleep, forced, cycleVars,
                   eventVars, finished, beganAfterStop, stopVars, escaped,
                   pending>>
    /\ UNCHANGED <<detailVars, otherVars>>

\* while self.running: the loop condition is read here and nowhere else.
LoopCheck ==
    /\ pc = "check"
    /\ running => cycle_count < MaxCycles
    /\ pc' = IF running THEN "body" ELSE "done"
    /\ UNCHANGED <<pos, running, cycle_count, interval, sleep_time, raw_sleep,
                   forced, cycleVars, eventVars, finished, beganAfterStop,
                   stopVars, escaped, pending>>
    /\ UNCHANGED <<detailVars, otherVars>>

\* cycle_count += 1; self.run_simulation_cycle() is entered.
BeginCycle ==
    /\ pc = "body"
    /\ cycle_count' = cycle_count + 1
    /\ pc' = "invoke"
    /\ pos' = 1
    /\ calls' = <<>>
    /\ batches' = {}
    /\ forwarded' = {}
    /\ raisedBy' = "none"
    /\ errorOf' = "none"
    /\ beganAfterStop' = (beganAfterStop \/ pcStop = "returned")
    /\ batchOf' = NoBatches
    /\ sent' = <<>>
    /\ recorded' = 0
    /\ cycleData' = NoBatches
    /\ metricsCollected' = -1
    /\ evRecorded' = 0
    /\ UNCHANGED <<running, interval, sleep_time, raw_sleep, forced,
                   eventVars, finished, stopVars, escaped, pending>>
    /\ UNCHANGED otherVars

\* ------------------------------------- state the providers keep
\* Failures removing the pods that failed and did not restart.
Failures_Evict(ps, fails, restarts) ==
    [n \in DOMAIN ps \ (fails \ restarts) |->
        IF n \in fails
          THEN [ps[n] EXCEPT !.restart_count = @ + 1]
          ELSE ps[n]]

\* Failures counting a restart only for the pods that stay Failed.
Failures_RestartUncounted(ps, fails, restarts) ==
    [n \in DOMAIN ps |->
        IF n \in fails
          THEN IF n \in restarts
                 THEN ps[n]
                 ELSE [ps[n] EXCEPT !.state = "Failed",
                                    !.restart_count = @ + 1]
          ELSE ps[n]]

\* simulate_pod_failures: each pod of fails becomes Failed with one more
\* restart, and those of restarts become Running again.
Failures(ps, fails, restarts) ==
    [n \in DOMAIN ps |->
        IF n \in fails
          THEN [ps[n] EXCEPT
                  !.state = IF n \in restarts THEN "Running" ELSE "Failed",
                  !.restart_count = @ + 1]
          ELSE ps[n]]

\* The names of the pods of ps in state st.
InState(ps, st) == {n \in DOMAIN ps : ps[n].state = st}

\* self.connection_pool_size
connection_pool_size == 20

Min(a, b) == IF a <= b THEN a ELSE b

\* ClampConnections without the lower limit of one connection.
ClampConnections_NoFloor(a, change) == Min(connection_pool_size, a + change)

\* max(1, min(self.connection_pool_size, self.active_connections + change))
ClampConnections(a, change) ==
    Max(1, Min(connection_pool_size, a + change))

\* HealthScore without the limits 0 and 100.
HealthScore_Unclamped(avg_time, errors) ==
    (100 * Scale - avg_time \div 10) - errors * Scale

\* What the call of provider p does to the state that outlives the call,
\* where it is followed (unit = "cycle"): simulate_connection_management
\* moves active_connections by the largest change either way, and
\* simulate_pod_failures makes Running pods Failed.
SimulateOperations(p) ==
    IF unit = "cycle" /\ p = "database"
      THEN /\ \E change \in {-3, 5} :
                active_connections' =
                  ClampConnections(active_connections, change)
           /\ UNCHANGED pod_states
      ELSE IF unit = "cycle" /\ p = "kubernetes"
        THEN /\ \E fails \in SUBSET {n \in InState(pod_states, "Running") :
                                pod_states[n].restart_count < MaxRestarts} :
                  pod_states' = Failures(pod_states, fails, {})
             /\ UNCHANGED active_connections
        ELSE UNCHANGED <<pod_states, active_connections>>

\* ------------------------------------------------ run_simulation_cycle()
\* InvokeProvider with the providers called from the last to the first.
InvokeProvider_Reversed ==
    /\ pc = "invoke"
    /\ calls' = Append(calls, Order[Len(Order) + 1 - pos])
    /\ pc' = "inprov"
    /\ UNCHANGED <<pos, running, cycle_count, interval, sleep_time, raw_sleep,
                   forced, batches, forwarded, raisedBy, errorOf, eventVars,
                   finished, beganAfterStop, stopVars, escaped, pending>>
    /\ UNCHANGED <<detailVars, otherVars>>

\* InvokeProvider with a provider called only where its flag is set.
InvokeProvider_Gated ==
    /\ pc = "invoke"
    /\ IF cfg[FlagNames[pos]]
         THEN /\ calls' = Append(calls, Order[pos])
              /\ pos' = pos
              /\ pc' = "inprov"
         ELSE /\ calls' = calls
              /\ pos' = IF pos < Len(Order) THEN pos + 1 ELSE pos
              /\ pc' = IF pos < Len(Order) THEN "invoke" ELSE "log"
    /\ UNCHANGED <<running, cycle_count, interval, sleep_time, raw_sleep,
                   forced, batches, forwarded, raisedBy, errorOf, eventVars,
                   finished, beganAfterStop, stopVars, escaped, pending>>
    /\ UNCHANGED <<detailVars, otherVars>>

\* The call of the provider at position pos.
InvokeProvider ==
    /\ pc = "invoke"
    /\ calls' = Append(calls, Order[pos])
    /\ pc' = "inprov"
    /\ UNCHANGED <<pos, running, cycle_count, interval, sleep_time, raw_sleep,
                   forced, batches, forwarded, raisedBy, errorOf, eventVars,
                   finished, beganAfterStop, stopVars, escaped, pending>>
    /\ UNCHANGED <<detailVars, otherVars>>

\* SendMetric without the except clause around the backend call.
SendMetric_Unguarded(configured, backendOk) ==
    IF ~configured THEN "noop"
    ELSE IF backendOk THEN "recorded" ELSE "raised"

\* send_metric_to_newrelic, by its outcome: nothing is done when the sink
\* is not configured; otherwise the backend records the metric, or its
\* failure is caught and logged.
SendMetric(configured, backendOk) ==
    IF ~configured THEN "noop"
    ELSE IF backendOk THEN "recorded" ELSE "logged"

\* send_event_to_newrelic, by its outcome.
SendEvent(configured, backendOk) ==
    IF ~configured THEN "noop"
    ELSE IF backendOk THEN "recorded" ELSE "logged"

\* The calls send_metric_to_newrelic(f"<prefix>.{metric_name}", value) of
\* the loop over the items of batch b of the provider at position i, with
\* the provider's key in place of its prefix.
Forwarded_ByKey(i, b) ==
    [j \in 1..Len(b) |-> <<Order[i], b[j][1], b[j][2]>>]

\* The calls of the loop over the items of batch b of the provider at
\* position i, as <<prefix, name, value>>.
Forwarded(i, b) ==
    [j \in 1..Len(b) |-> <<Prefixes[i], b[j][1], b[j][2]>>]

\* The provider returns batch b; every entry of it is forwarded with
\* send_metric_to_newrelic, the backend accepting the first k of them and
\* failing on the others; the next statement is the next provider's call
\* or, after the fifth, the assembly of all_metrics. An exception leaving
\* send_metric_to_newrelic would end the loop and the try block.
ProviderReturnsWith(b, k) ==
    LET outcome == [j \in 1..Len(b) |-> SendMetric(app, j <= k)]
        raising == {j \in 1..Len(b) : outcome[j] = "raised"}
        made    == IF raising = {} THEN Len(b)
                   ELSE CHOOSE j \in raising : \A h \in raising : j <= h
    IN
    /\ pc = "inprov"
    /\ forced # Order[pos]
    /\ batches' = batches \cup {Order[pos]}
    /\ batchOf' = [batchOf EXCEPT ![Order[pos]] = b]
    /\ sent' = sent \o SubSeq(Forwarded(pos, b), 1, made)
    /\ recorded' = recorded
                     + Cardinality({j \in 1..made : outcome[j] = "recorded"})
    /\ IF raising = {}
         THEN /\ forwarded' = forwarded \cup {Order[pos]}
              /\ pending' = pending
              /\ IF pos < Len(Order)
                   THEN /\ pos' = pos + 1
                        /\ pc' = "invoke"
                   ELSE /\ pos' = pos
                        /\ pc' = "log"
         ELSE /\ forwarded' = forwarded
              /\ pending' = "Exception"
              /\ pos' = pos
              /\ pc' = "handler"
    /\ SimulateOperations(Order[pos])
    /\ UNCHANGED <<running, cycle_count, interval, sleep_time, raw_sleep,
                   forced, calls, raisedBy, errorOf, eventVars, finished,
                   beganAfterStop, stopVars, escaped>>
    /\ UNCHANGED <<cycleData, metricsCollected, evRecorded, app, startVars,
                   unit, now, lastBatch, hostFault>>

\* The provider returns, the contents of its batch not followed.
ProviderReturns == ProviderReturnsWith(DefaultBatch, 1)

\* The provider returns any of its batches, with any behaviour of the
\* backend.
ProduceBatch ==
    \E b \in BatchChoices :
        \E k \in 0..Len(b) :
            /\ app \/ k = Len(b)
            /\ ProviderReturnsWith(b, k)

\* ProviderRaises with a try block of its own around each provider: the
\* error is noted and the next provider is called.
ProviderRaises_Isolated ==
    /\ pc = "inprov"
    /\ forced \in {"any", Order[pos]}
    /\ raisedBy' = Order[pos]
    /\ IF pos < Len(Order)
         THEN /\ pos' = pos + 1
              /\ pc' = "invoke"
              /\ pending' = pending
         ELSE /\ pos' = pos
              /\ pc' = "handler"
              /\ pending' = "Exception"
    /\ UNCHANGED <<running, cycle_count, interval, sleep_time, raw_sleep,
                   forced, calls, batches, forwarded, errorOf, eventVars,
                   finished, beganAfterStop, stopVars, escaped>>
    /\ UNCHANGED <<detailVars, otherVars>>

\* The provider raises an Exception: control leaves the try block for the
\* except clause of run_simulation_cycle.
ProviderRaises ==
    /\ pc = "inprov"
    /\ forced \in {"any", Order[pos]}
    /\ raisedBy' = Order[pos]
    /\ pending' = "Exception"
    /\ pc' = "handler"
    /\ UNCHANGED <<pos, running, cycle_count, interval, sleep_time, raw_sleep,
                   forced, calls, batches, forwarded, errorOf, eventVars,
                   finished, beganAfterStop, stopVars, escaped>>
    /\ UNCHANGED <<detailVars, otherVars>>

\* all_metrics is assembled from the five batches, keyed by provider, and
\* given to log_structured_event("telemetry_cycle", all_metrics).
LogCycleEvent ==
    /\ pc = "log"
    /\ cycleEvents' = cycleEvents + 1
    /\ cycleData' = batchOf
    /\ pc' = "summary"
    /\ UNCHANGED <<pos, running, cycle_count, interval, sleep_time, raw_sleep,
                   forced, cycleVars, summaryEvents, errorEvents, finished,
                   beganAfterStop, stopVars, escaped, pending>>
    /\ UNCHANGED <<batchOf, sent, recorded, metricsCollected, evRecorded,
                   otherVars>>

\* MetricsCollected counting the batches instead of their entries.
MetricsCollected_Batches(all) ==
    Cardinality({p \in DOMAIN all : all[p] # <<>>})

\* sum(len(metrics) for metrics in all_metrics.values())
MetricsCollected(all) ==
    LET RECURSIVE SumTo(_)
        SumTo(i) == IF i = 0 THEN 0
                    ELSE Len(all[Order[i]]) + SumTo(i - 1)
    IN SumTo(Len(Order))

\* The TelemetryCycle event is sent, the backend accepting it or failing,
\* and run_simulation_cycle returns. An exception leaving
\* send_event_to_newrelic would be raised inside the try block.
SendCycleSummaryWith(ok) ==
    /\ pc = "summary"
    /\ summaryEvents' = summaryEvents + 1
    /\ metricsCollected' = MetricsCollected(batchOf)
    /\ evRecorded' = evRecorded
                       + (IF SendEvent(app, ok) = "recorded" THEN 1 ELSE 0)
    /\ IF SendEvent(app, ok) = "raised"
         THEN /\ pending' = "Exception"
              /\ pc' = "handler"
              /\ UNCHANGED <<finished, escaped>>
         ELSE /\ pending' = pending
              /\ finished' = finished + 1
              /\ escaped' = FALSE
              /\ pc' = "sleep"
    /\ UNCHANGED <<pos, running, cycle_count, interval, sleep_time, raw_sleep,
                   forced, cycleVars, cycleEvents, errorEvents,
                   beganAfterStop, stopVars>>
    /\ UNCHANGED <<batchOf, sent, recorded, cycleData, otherVars>>

\* SendCycleSummary without the TelemetryCycle event.
SendCycleSummary_Silent ==
    /\ pc = "summary"
    /\ finished' = finished + 1
    /\ escaped' = FALSE
    /\ pc' = "sleep"
    /\ UNCHANGED <<pos, running, cycle_count, interval, sleep_time, raw_sleep,
                   forced, cycleVars, eventVars, beganAfterStop, stopVars,
                   pending>>
    /\ UNCHANGED <<detailVars, otherVars>>

\* The TelemetryCycle event is sent and run_simulation_cycle returns.
SendCycleSummary == SendCycleSummaryWith(TRUE)

\* The TelemetryCycle event is sent, with any behaviour of the backend.
EmitCycleSummary == \E ok \in BOOLEAN : (app \/ ok) /\ SendCycleSummaryWith(ok)

\* except Exception as e: the error is logged, one TelemetryError event
\* with the type and the message of e is sent, the backend accepting it or
\* failing, and run_simulation_cycle returns. An exception leaving
\* send_event_to_newrelic would leave run_simulation_cycle.
HandleErrorWith(ok) ==
    /\ pc = "handler"
    /\ errorEvents' = errorEvents + 1
    /\ errorOf' = raisedBy
    /\ evRecorded' = evRecorded
                       + (IF SendEvent(app, ok) = "recorded" THEN 1 ELSE 0)
    /\ finished' = finished + 1
    /\ IF SendEvent(app, ok) = "raised"
         THEN /\ pending' = "Exception"
              /\ escaped' = TRUE
              /\ pc' = "caught"
         ELSE /\ pending' = "none"
              /\ escaped' = FALSE
              /\ pc' = "sleep"
    /\ UNCHANGED <<pos, running, cycle_count, interval, sleep_time, raw_sleep,
                   forced, calls, batches, forwarded, raisedBy, cycleEvents,
                   summaryEvents, beganAfterStop, stopVars>>
    /\ UNCHANGED <<batchOf, sent, recorded, cycleData, metricsCollected,
                   otherVars>>

\* HandleError without the TelemetryError event.
HandleError_Silent ==
    /\ pc = "handler"
    /\ pending' = "none"
    /\ finished' = finished + 1
    /\ escaped' = FALSE
    /\ pc' = "sleep"
    /\ UNCHANGED <<pos, running, cycle_count, interval, sleep_time, raw_sleep,
                   forced, cycleVars, eventVars, beganAfterStop, stopVars>>
    /\ UNCHANGED <<detailVars, otherVars>>

\* HandleError that sends the event and raises the exception again.
HandleError_Reraise ==
    /\ pc = "handler"
    /\ errorEvents' = errorEvents + 1
    /\ errorOf' = raisedBy
    /\ finished' = finished + 1
    /\ escaped' = TRUE
    /\ pc' = "raised"
    /\ UNCHANGED <<pos, running, cycle_count, interval, sleep_time, raw_sleep,
                   forced, calls, batches, forwarded, raisedBy, cycleEvents,
                   summaryEvents, beganAfterStop, stopVars, pending>>
    /\ UNCHANGED <<detailVars, otherVars>>

\* The except clause of run_simulation_cycle.
HandleError == HandleErrorWith(TRUE)

\* The except clause of run_simulation_cycle, with any behaviour of the
\* backend.
EmitError == \E ok \in BOOLEAN : (app \/ ok) /\ HandleErrorWith(ok)

\* ------------------------------------------------------ the jittered sleep
\* base_interval + random.uniform(-0.1, 0.1) * base_interval, in ms, for a
\* draw u in thousandths.
RawSleepMs(b, u) == 1000 * b + u * b

\* SleepMs without the floor of one second.
SleepMs_NoFloor(b, u) == RawSleepMs(b, u)

\* sleep_time = max(1, base_interval + jitter), in ms.
SleepMs(b, u) == Max(FloorMs, RawSleepMs(b, u))

\* The jitter is drawn and time.sleep(sleep_time) is entered.
ComputeSleep ==
    /\ pc = "sleep"
    /\ \E u \in JitterDraws :
          /\ raw_sleep' = RawSleepMs(interval, u)
          /\ sleep_time' = SleepMs(interval, u)
    /\ pc' = "sleeping"
    /\ UNCHANGED <<pos, running, cycle_count, interval, forced, cycleVars,
                   eventVars, finished, beganAfterStop, stopVars, escaped,
                   pending>>
    /\ UNCHANGED <<detailVars, otherVars>>

\* WakeUp that enters the next iteration without reading the loop condition.
WakeUp_SkipsCheck ==
    /\ pc = "sleeping"
    /\ cycle_count < MaxCycles
    /\ pc' = "body"
    /\ UNCHANGED <<pos, running, cycle_count, interval, sleep_time, raw_sleep,
                   forced, cycleVars, eventVars, finished, beganAfterStop,
                   stopVars, escaped, pending>>
    /\ UNCHANGED <<detailVars, otherVars>>

\* time.sleep returns; the next statement is the loop condition.
WakeUp ==
    /\ pc = "sleeping"
    /\ pc' = "check"
    /\ UNCHANGED <<pos, running, cycle_count, interval, sleep_time, raw_sleep,
                   forced, cycleVars, eventVars, finished, beganAfterStop,
                   stopVars, escaped, pending>>
    /\ UNCHANGED <<detailVars, otherVars>>

\* ------------------------------------------------------------ stop()
\* self.running = False, from the controller thread.
StopSet ==
    /\ pcStop = "idle"
    /\ running' = FALSE
    /\ pcStop' = "set"
    /\ stopPhase' = pc
    /\ stopCount' = cycle_count
    /\ UNCHANGED <<interval, forced, workerVars>>
    /\ UNCHANGED <<detailVars, otherVars>>

\* stop() returns to its caller.
StopReturn ==
    /\ pcStop = "set"
    /\ pcStop' = "returned"
    /\ UNCHANGED <<running, interval, forced, stopCount, stopPhase,
                   workerVars>>
    /\ UNCHANGED <<detailVars, otherVars>>

\* ------------------------------------------- errors outside the guard
\* GuardEscapes with no except Exception clause in run(): the exception
\* leaves run().
GuardEscapes_Propagates ==
    /\ pc = "handler"
    /\ pending' = "Exception"
    /\ escaped' = TRUE
    /\ finished' = finished + 1
    /\ pc' = "raised"
    /\ UNCHANGED <<pos, running, cycle_count, interval, sleep_time, raw_sleep,
                   forced, cycleVars, eventVars, beganAfterStop, stopVars>>
    /\ UNCHANGED <<detailVars, otherVars>>

\* The except clause of run_simulation_cycle is itself unguarded: when
\* logging the error raises, no TelemetryError is sent and an Exception
\* leaves run_simulation_cycle for the except clause of run().
GuardEscapes ==
    /\ pc = "handler"
    /\ pending' = "Exception"
    /\ escaped' = TRUE
    /\ finished' = finished + 1
    /\ pc' = "caught"
    /\ UNCHANGED <<pos, running, cycle_count, interval, sleep_time, raw_sleep,
                   forced, cycleVars, eventVars, beganAfterStop, stopVars>>
    /\ UNCHANGED <<detailVars, otherVars>>

\* time.sleep(sleep_time) fails with an OSError: an Exception raised in the
\* try block of the loop, after the cycle.
SleepRaises ==
    /\ pc = "sleeping"
    /\ pending' = "Exception"
    /\ pc' = "caught"
    /\ UNCHANGED <<pos, running, cycle_count, interval, sleep_time, raw_sleep,
                   forced, cycleVars, eventVars, finished, beganAfterStop,
                   stopVars, escaped>>
    /\ UNCHANGED <<detailVars, otherVars>>

\* CatchUnexpected sleeping the configured interval instead of 5 seconds.
CatchUnexpected_Interval ==
    /\ pc = "caught"
    /\ pending' = "none"
    /\ sleep_time' = SleepMs(interval, 0)
    /\ pc' = "backoff"
    /\ UNCHANGED <<pos, running, cycle_count, interval, raw_sleep, forced,
                   cycleVars, eventVars, finished, beganAfterStop, stopVars,
                   escaped>>
    /\ UNCHANGED <<detailVars, otherVars>>

\* except Exception in run(): the error is logged and time.sleep(5) is
\* entered.
CatchUnexpected ==
    /\ pc = "caught"
    /\ pending' = "none"
    /\ sleep_time' = BackoffMs
    /\ pc' = "backoff"
    /\ UNCHANGED <<pos, running, cycle_count, interval, raw_sleep, forced,
                   cycleVars, eventVars, finished, beganAfterStop, stopVars,
                   escaped>>
    /\ UNCHANGED <<detailVars, otherVars>>

\* time.sleep(5) returns; the next statement is the loop condition.
BackoffEnd ==
    /\ pc = "backoff"
    /\ pc' = "check"
    /\ UNCHANGED <<pos, running, cycle_count, interval, sleep_time, raw_sleep,
                   forced, cycleVars, eventVars, finished, beganAfterStop,
                   stopVars, escaped, pending>>
    /\ UNCHANGED <<detailVars, otherVars>>

\* KeyboardInterrupt raised in the try block of the loop body (run() on the
\* main thread): it passes the except Exception clause of
\* run_simulation_cycle and is handled by except KeyboardInterrupt: break.
Interrupt ==
    /\ pc \in InBody
    /\ pending' = "KeyboardInterrupt"
    /\ finished' = IF pc \in InCycle THEN finished + 1 ELSE finished
    /\ pc' = "done"
    /\ UNCHANGED <<pos, running, cycle_count, interval, sleep_time, raw_sleep,
                   forced, cycleVars, eventVars, beganAfterStop, stopVars,
                   escaped>>
    /\ UNCHANGED <<detailVars, otherVars>>

\* An exception raised while time.sleep(5) runs: the except clause of run()
\* is not covered by any handler, the exception leaves run().
RaiseInBackoff ==
    /\ pc = "backoff"
    /\ \E e \in {"Exception", "KeyboardInterrupt"} : pending' = e
    /\ pc' = "raised"
    /\ UNCHANGED <<pos, running, cycle_count, interval, sleep_time, raw_sleep,
                   forced, cycleVars, eventVars, finished, beganAfterStop,
                   stopVars, escaped>>
    /\ UNCHANGED <<detailVars, otherVars>>

\* ------------------------------------------------------- specifications
\* The steps of the worker thread.
Worker ==
    \/ RunStart
    \/ LoopCheck
    \/ BeginCycle
    \/ InvokeProvider
    \/ ProviderReturns
    \/ ProviderRaises
    \/ LogCycleEvent
    \/ SendCycleSummary
    \/ HandleError
    \/ ComputeSleep
    \/ WakeUp

\* The steps of the controller thread.
Controller ==
    \/ StopSet
    \/ StopReturn

\* Errors that reach the loop of run() itself.
Faults ==
    \/ GuardEscapes
    \/ SleepRaises
    \/ CatchUnexpected
    \/ BackoffEnd
    \/ Interrupt
    \/ RaiseInBackoff

Next ==
    \/ Worker
    \/ Controller

NextFault ==
    \/ Worker
    \/ Controller
    \/ Faults

\* The worker alone, the contents of the batches and the behaviour of the
\* export backend followed.
NextCycle ==
    \/ RunStart
    \/ LoopCheck
    \/ BeginCycle
    \/ InvokeProvider
    \/ ProduceBatch
    \/ ProviderRaises
    \/ LogCycleEvent
    \/ EmitCycleSummary
    \/ EmitError
    \/ ComputeSleep
    \/ WakeUp

\* The worker and its providers after construction, the state the
\* providers keep followed through the worker's cycles.
InitFollowed ==
    /\ WorkerIdle(FALSE)
    /\ unit = "cycle"
    /\ pod_states = [n \in BaselineNames |-> Pod("Running", 0, 10, 100)]
    /\ now = 0
    /\ active_connections = 5
    /\ lastBatch = EmptyDict
    /\ hostFault = NoFault

\* The worker as main.py runs it: on a daemon thread, with the service's
\* own SIGINT/SIGTERM handlers installed, providers raising Exceptions.
Spec == Init /\ [][Next]_vars

\* The worker thread alone, with the batches and the backend followed.
SpecCycle == InitCycle /\ [][NextCycle]_vars

\* The worker thread alone, with the state of the cluster and database
\* providers followed.
SpecFollowed == InitFollowed /\ [][Worker]_vars

\* Spec with a scheduler that keeps running the worker thread.
LiveSpec == Spec /\ WF_vars(Worker)

\* The worker with errors reaching the loop of run().
SpecFault == Init /\ [][NextFault]_vars

\* ------------------------------------------------------------- properties
\* Positions of the worker after a cycle has ended and before the next one
\* begins: the per-cycle variables describe the cycle that ended last.
AfterCycle == {"sleep", "sleeping", "check", "body", "done"}

\* Positions at which the worker has left run().
Exited == {"done", "raised"}

\* Positions inside a cycle or inside the inter-cycle sleep.
InFlight == InCycle \cup {"sleep", "sleeping"}

\* The stop request landed while a cycle or its sleep was in progress.
StoppedInFlight == pcStop # "idle" /\ stopPhase \in InFlight

\* The stop request landed after cycle stopCount had started and before
\* the loop condition was read again.
StoppedInWindow ==
    /\ pcStop # "idle"
    /\ stopPhase \in InFlight \cup {"check"}
    /\ stopCount >= 1

\* C1: when one provider raises in a cycle, every other provider is still
\* invoked in that cycle and its batch is produced and forwarded.
C1_EachProviderIsolated ==
    (pc = "sleep" /\ raisedBy # "none") =>
        \A p \in Providers \ {raisedBy} :
            /\ \E i \in 1..Len(calls) : calls[i] = p
            /\ p \in batches
            /\ p \in forwarded

\* C2: with one provider raising on every call, the number of TelemetryError
\* events equals the number of cycles run, each event carrying the error of
\* the failing provider; no cycle sends more than one.
C2_OneTelemetryErrorPerFailingCycle ==
    /\ errorEvents <= finished
    /\ forced \in Providers =>
          /\ errorEvents = finished
          /\ (pc \in AfterCycle /\ finished >= 1) => errorOf = forced

C2_Witness ==
    /\ forced \in Providers
    /\ pc = "sleep"
    /\ finished = MaxCycles
    /\ errorEvents = MaxCycles

\* C3: a cycle in which a provider raised returns normally to the scheduler,
\* and the scheduler then starts the next cycle unless stop is requested.
C3_FailedCycleReturnsAndNextStarts ==
    /\ [][pc = "handler" =>
            \/ pc' = "handler"
            \/ pc' = "sleep" /\ pending' = "none" /\ finished' = finished + 1]_vars
    /\ \A n \in 1..(MaxCycles - 1) :
          (pc = "handler" /\ cycle_count = n)
              ~> ((pc = "invoke" /\ cycle_count = n + 1) \/ pcStop # "idle")

C3_Witness ==
    /\ pc = "invoke"
    /\ cycle_count >= 2
    /\ raisedBy = "none"
    /\ errorEvents = cycle_count - 1
    /\ pcStop = "idle"

\* C4: no cycle begins after stop() has returned, whatever the interleaving
\* of stop() and run().
C4_NoCycleBeginsAfterStopReturned == ~beganAfterStop

\* C5: a stop request that lands inside a cycle or inside the inter-cycle
\* sleep changes nothing of the worker's progress; the cycle completes, the
\* request is observed at the loop condition, no further cycle starts and
\* run() eventually returns.
C5_StopIsCooperative ==
    /\ [][(running /\ ~running') => UNCHANGED workerVars]_vars
    /\ [][StoppedInFlight => cycle_count' = cycle_count]_vars
    /\ [][(StoppedInFlight /\ pc \notin Exited /\ pc' \in Exited) =>
              (pc = "check" /\ pc' = "done")]_vars
    /\ StoppedInFlight
          ~> (pc = "done" /\ finished = cycle_count /\ cycle_count = stopCount)

C5_Witness ==
    /\ pc = "done"
    /\ stopPhase = "inprov"
    /\ cycle_count >= 2
    /\ finished = cycle_count
    /\ cycle_count = stopCount

C7_BackoffAndRetry ==
    /\ [][(pc \in InCycle /\ pending' = "Exception" /\ pc' \notin InCycle) =>
              pc' = "caught"]_vars
    /\ [][pc = "caught" =>
              \/ pc' = "caught"
              \/ /\ pc' = "backoff"
                 /\ sleep_time' = 5000
                 /\ raw_sleep' = raw_sleep]_vars
    /\ [][(pc = "backoff" /\ pc' \notin {"backoff", "raised"}) =>
              (pc' = "check" /\ cycle_count' = cycle_count)]_vars
    /\ [][(pc = "check" /\ running /\ pc' # "check") => pc' = "body"]_vars
    /\ [][(pc = "body" /\ pc' \notin {"body", "done"}) =>
              (pc' = "invoke" /\ cycle_count' = cycle_count + 1)]_vars

C7_Witness ==
    /\ pc = "invoke"
    /\ escaped
    /\ sleep_time = BackoffMs
    /\ cycle_count >= 2

\* C8: the inter-cycle sleep is max(1 s, b + j) with j within a tenth of b
\* on either side: b + j lies in [0.9 b, 1.1 b] ([27, 33] s for b = 30) and
\* the sleep is never below 1 s.
C8_JitteredSleepBounds ==
    pc = "sleeping" =>
        /\ 900 * interval <= raw_sleep
        /\ raw_sleep <= 1100 * interval
        /\ interval = 30 => (27000 <= raw_sleep /\ raw_sleep <= 33000)
        /\ sleep_time >= 1000
        /\ sleep_time = IF raw_sleep < 1000 THEN 1000 ELSE raw_sleep

C8_Witness ==
    /\ pc = "sleeping"
    /\ interval = 1
    /\ raw_sleep = 900
    /\ sleep_time = 1000

\* C9: with every provider succeeding and the stop request landing after the
\* N-th cycle started and before the loop condition is read again, run()
\* ends with N telemetry_cycle events, N TelemetryCycle events, cycle_count
\* N and no TelemetryError event.
C9_ExactlyNCycles ==
    (pc = "done" /\ forced = "none" /\ StoppedInWindow) =>
        /\ cycle_count = stopCount
        /\ cycleEvents = stopCount
        /\ summaryEvents = stopCount
        /\ errorEvents = 0

C9_Witness ==
    /\ pc = "done"
    /\ forced = "none"
    /\ stopPhase = "sleeping"
    /\ stopCount = MaxCycles
    /\ cycleEvents = MaxCycles
    /\ summaryEvents = MaxCycles

\* C10: in a cycle the providers are invoked in the order kubernetes,
\* database, storage, network, system, each at most once and only after
\* every earlier one has returned.
C10_FixedSequentialOrder ==
    /\ Len(calls) <= 5
    /\ \A i \in 1..Len(calls) :
          /\ calls[i] = <<"kubernetes", "database", "storage", "network",
                          "system">>[i]
          /\ \A j \in 1..(i - 1) : calls[j] # calls[i] /\ calls[j] \in batches
    /\ pc = "inprov" => calls[Len(calls)] \notin batches

C10_Witness ==
    /\ pc = "log"
    /\ Len(calls) = 5
    /\ batches = Providers

\* ------------------------------------------------------------------ C11
\* The run_simulation_cycle call has returned without an error.
CycleSucceeded == pc \in {"sleep", "sleeping"} /\ batches = Providers

\* C11: in a cycle where all five providers return, one telemetry_cycle
\* event is logged whose data holds the five batches under the keys
\* kubernetes, database, storage, network and system, and after it one
\* TelemetryCycle event is sent whose metrics_collected is the number of
\* entries of the five batches together.
C11_CycleEventThenSummary ==
    /\ pc = "summary" =>
          /\ cycleEvents = summaryEvents + 1
          /\ metricsCollected = -1
          /\ DOMAIN cycleData = {"kubernetes", "database", "storage",
                                 "network", "system"}
          /\ \A p \in Providers :
                cycleData[p] = batchOf[p] /\ batchOf[p] # <<>>
    /\ CycleSucceeded =>
          /\ cycleEvents = finished - errorEvents
          /\ summaryEvents = cycleEvents
          /\ \A p \in Providers :
                cycleData[p] = batchOf[p] /\ batchOf[p] # <<>>
          /\ metricsCollected =
                Len(batchOf["kubernetes"]) + Len(batchOf["database"])
                  + Len(batchOf["storage"]) + Len(batchOf["network"])
                  + Len(batchOf["system"])

C11_Witness ==
    /\ CycleSucceeded
    /\ cycle_count = 2
    /\ Len(batchOf["kubernetes"]) = 2
    /\ Len(batchOf["system"]) = 1
    /\ metricsCollected = 7

\* ------------------------------------------------------------------ C12
\* The prefix the metric names of each provider are exported under.
C12_Prefix ==
    [kubernetes |-> "k8s", database |-> "database", storage |-> "storage",
     network |-> "network", system |-> "system"]

\* C12: for every provider and every (name, value) entry of the batch it
\* returned in the cycle, exactly one send_metric_to_newrelic call has been
\* made with the name "<prefix>.<name>" and that value, and every call made
\* is the call of such an entry.
C12_EveryEntryForwardedOnce ==
    /\ \A p \in Providers :
          \A j \in 1..Len(batchOf[p]) :
              Cardinality({i \in 1..Len(sent) :
                              sent[i] = <<C12_Prefix[p], batchOf[p][j][1],
                                          batchOf[p][j][2]>>}) = 1
    /\ \A i \in 1..Len(sent) :
          \E p \in Providers :
              \E j \in 1..Len(batchOf[p]) :
                  sent[i] = <<C12_Prefix[p], batchOf[p][j][1],
                              batchOf[p][j][2]>>

C12_Witness ==
    /\ pc = "log"
    /\ Len(sent) = 8
    /\ Len(batchOf["kubernetes"]) = 2
    /\ batchOf["storage"] = batchOf["network"]

\* ============================================================ providers
\* The operations of one provider at a time, the worker not started.

\* ------------------------------------------------- KubernetesSimulator
\* The ends of the ranges the cpu_usage (percent) and the memory_usage (MB)
\* of a baseline pod are drawn from, as <<cpu, memory>>.
BaseUsage == {<<10, 100>>, <<80, 800>>}

\* The middle of the two ranges.
MidUsage == <<45, 450>>

\* The pod's usage is at an end of the baseline range or beyond it.
Walks(pod) == pod.cpu_usage <= 10 \/ pod.cpu_usage >= 80

\* _initialize_baseline_pods: every baseline pod is Running, with a
\* restart_count drawn from 0..5 and a usage drawn from uniform(10, 80)
\* and uniform(100, 800). Two kinds of fleet are followed: pods of the
\* middle usage with 0 or 1 restarts, and pods of either end of the usage
\* ranges with no restart.
K8sConstructed ==
    /\ unit = "kubernetes"
    /\ \/ \E rc \in {0, 1} :
            pod_states =
              [n \in BaselineNames |->
                 Pod("Running", rc, MidUsage[1], MidUsage[2])]
       \/ pod_states \in
            [BaselineNames ->
               {Pod("Running", 0, u[1], u[2]) : u \in BaseUsage}]
    /\ now = 0
    /\ active_connections = 5
    /\ lastBatch = EmptyDict
    /\ hostFault = NoFault

\* Scheduled with the new pod Running from its creation.
Scheduled_Running(ps, create, t) ==
    IF create
      THEN [n \in DOMAIN ps \cup {<<"dynamic-pod", t>>} |->
               IF n = <<"dynamic-pod", t>>
                 THEN Pod("Running", 0, 0, 0)
                 ELSE ps[n]]
      ELSE ps

\* simulate_pod_scheduling: with create, the entry dynamic-pod-<t> is
\* assigned a Pending pod, an entry of that name being overwritten.
Scheduled(ps, create, t) ==
    IF create
      THEN [n \in DOMAIN ps \cup {<<"dynamic-pod", t>>} |->
               IF n = <<"dynamic-pod", t>>
                 THEN Pod("Pending", 0, 0, 0)
                 ELSE ps[n]]
      ELSE ps

\* The changes random.uniform(-5, 15) and random.uniform(-20, 50) of one
\* pod that are followed, as <<cpu_change, memory_change>>: a pod of the
\* low end of the baseline walks down, one of the high end walks up, and
\* one of the middle stays.
UsageDraws(pod) ==
    IF pod.cpu_usage <= 10 THEN {<<-5, -20>>}
    ELSE IF pod.cpu_usage >= 80 THEN {<<15, 50>>}
    ELSE {<<0, 0>>}

\* ClampCpu without the upper limit.
ClampCpu_NoCeiling(x) == Max(5, x)

\* max(5, min(95, cpu_usage + cpu_change))
ClampCpu(x) == Max(5, IF x <= 95 THEN x ELSE 95)

\* max(50, min(1000, memory_usage + memory_change))
ClampMemory(x) == Max(50, IF x <= 1000 THEN x ELSE 1000)

\* simulate_resource_usage: the usage of every Running pod moves by its
\* draw and is clamped; the other pods are not visited.
ResourceUsage(ps, draw) ==
    [n \in DOMAIN ps |->
        IF ps[n].state = "Running"
          THEN [ps[n] EXCEPT
                  !.cpu_usage = ClampCpu(@ + draw[n][1]),
                  !.memory_usage = ClampMemory(@ + draw[n][2])]
          ELSE ps[n]]

\* The sum of field f over the pods of names in ps, which are baseline
\* pods: only those can be Running.
SumOver(ps, names, f) ==
    LET RECURSIVE Upto(_)
        Upto(i) ==
            IF i < 0 THEN 0
            ELSE (IF <<"api-server", i>> \in names
                    THEN ps[<<"api-server", i>>][f] ELSE 0) + Upto(i - 1)
    IN Upto(BaselinePods - 1)

\* What a division by zero leaves of the call: the exception in place of
\* the batch.
ZeroDivisionError == [raised |-> "ZeroDivisionError"]

\* RestartRateDenominator without the guard.
RestartRateDenominator_Unguarded(running_count) == running_count

\* max(len(running_pods), 1)
RestartRateDenominator(running_count) == Max(running_count, 1)

\* The denominators of one call: that of pod_restart_rate, and pod_count
\* on the branch that divides by it.
K8sDenominators(running_count, pod_count) ==
    {RestartRateDenominator(running_count)}
      \cup (IF pod_count > 0 THEN {pod_count} ELSE {})

\* simulate_operations of the Kubernetes provider, for one set of draws:
\* the clock second, the creation of a pod, the pods that fail, those of
\* them that restart, the change of usage of each Running pod, and the
\* cluster health score. The failures of the pods whose usage walks are
\* not followed, and the clock is followed to a new second only where a
\* pod is named after it.
K8sCycle ==
    /\ unit = "kubernetes"
    /\ \E tick \in {0, 1}, create \in BOOLEAN,
          health \in {85 * Scale, 99 * Scale} :
        /\ tick = 1 => create
        /\ now + tick <= MaxClock
        /\ \E ps1 \in {Scheduled(pod_states, create, now + tick)} :
           \E running_pods \in {InState(ps1, "Running")} :
           \E fails \in SUBSET {n \in running_pods :
                                  /\ ps1[n].restart_count < MaxRestarts
                                  /\ ~Walks(ps1[n])} :
           \E restarts \in SUBSET fails :
           \E ps2 \in {Failures(ps1, fails, restarts)} :
           \E visited \in {InState(ps2, "Running")} :
           \E draw \in [visited -> UNION {UsageDraws(ps2[n]) :
                                            n \in visited}] :
           \E ps3 \in {ResourceUsage(ps2, draw)} :
             /\ \A n \in visited : draw[n] \in UsageDraws(ps2[n])
             /\ now' = now + tick
             /\ pod_states' =
                  IF RestartRateDenominator(Cardinality(running_pods)) = 0
                    THEN ps2 ELSE ps3
             /\ lastBatch' =
                  IF 0 \in K8sDenominators(Cardinality(running_pods),
                                           Cardinality(visited))
                  THEN ZeroDivisionError ELSE
                  [pods_scheduled_total |-> IF create THEN 1 ELSE 0,
                   pod_failures_total |-> Cardinality(fails),
                   pod_restart_rate |->
                     (Cardinality(fails) * Scale)
                       \div RestartRateDenominator(
                              Cardinality(running_pods)),
                   average_cpu_usage_percent |->
                     IF Cardinality(visited) > 0
                       THEN (SumOver(ps3, visited, "cpu_usage") * Scale)
                              \div Cardinality(visited)
                       ELSE 0,
                   average_memory_usage_mb |->
                     IF Cardinality(visited) > 0
                       THEN (SumOver(ps3, visited, "memory_usage") * Scale)
                              \div Cardinality(visited)
                       ELSE 0,
                   total_running_pods |-> Cardinality(visited),
                   cluster_health_score |-> health]
    /\ UNCHANGED <<unit, active_connections, hostFault, threadVars>>

\* --------------------------------------------------- DatabaseSimulator
\* Pct giving a rate per thousand.
Pct_PerMille(part, whole) == (part * 1000 * Scale) \div whole

\* part / whole * 100, in hundredths of a percent.
Pct(part, whole) == (part * 100 * Scale) \div whole

\* __init__: active_connections = random.randint(5, 15).
DbConstructed ==
    /\ unit = "database"
    /\ active_connections \in 5..15
    /\ pod_states = [n \in BaselineNames |-> Pod("Running", 0, 10, 100)]
    /\ now = 0
    /\ lastBatch = EmptyDict
    /\ hostFault = NoFault

\* HealthScore with the connections held before the cycle counted as errors.
HealthScore_StaleGauge(avg_time, errors) ==
    Max(0, Min(100 * Scale,
               (100 * Scale - avg_time \div 10)
                 - (errors + active_connections) * Scale))

\* max(0, min(100, (100 - average_query_time_ms / 10) - error_factor)), the
\* time in hundredths of a millisecond.
HealthScore(avg_time, errors) ==
    Max(0, Min(100 * Scale,
               (100 * Scale - avg_time \div 10) - errors * Scale))

\* query_metrics, in the order the loop of simulate_query_performance
\* visits it.
QueryTypes ==
    <<"select", "insert", "update", "delete", "join", "aggregate">>

AvgName ==
    <<"select_avg_time_ms", "insert_avg_time_ms", "update_avg_time_ms",
      "delete_avg_time_ms", "join_avg_time_ms", "aggregate_avg_time_ms">>

CountName ==
    <<"select_count", "insert_count", "update_count", "delete_count",
      "join_count", "aggregate_count">>

\* The queries of one type in one call: query_count, the sum of their
\* exec_time in milliseconds, and how many of them took the slow branch.
Sample(c, t, s) == [count |-> c, time |-> t, slow |-> s]

\* What one call may draw, one sample per type: the fewest queries, all at
\* the minimum time; few queries, every one of them slow; the most queries
\* at the maximum time of the normal branch.
Workloads ==
    {<<Sample(6, 12, 0), Sample(1, 5, 0), Sample(1, 10, 0),
       Sample(0, 0, 0), Sample(0, 0, 0), Sample(0, 0, 0)>>,
     <<Sample(6, 900, 6), Sample(1, 300, 1), Sample(1, 600, 1),
       Sample(0, 0, 0), Sample(8, 12000, 8), Sample(2, 4200, 2)>>,
     <<Sample(60, 3000, 5), Sample(15, 1500, 0), Sample(10, 2000, 0),
       Sample(5, 750, 0), Sample(8, 4000, 0), Sample(2, 2000, 0)>>}

RECURSIVE Total(_, _, _)
\* The sum of one field over the first i samples: total_queries, total_time
\* and slow_queries after the loop has visited i types.
Total(w, i, f) == IF i = 0 THEN 0 ELSE Total(w, i - 1, f) + w[i][f]

\* avg_time = total_time / max(query_count, 1) at the end of the i-th pass
\* of the loop, in hundredths of a millisecond.
TypeAvgTime(w, i) == (Total(w, i, "time") * Scale) \div Max(w[i].count, 1)

\* The per-type metrics the loop adds to its dict.
PerType(w) ==
    [k \in {AvgName[i] : i \in 1..Len(QueryTypes)}
             \cup {CountName[i] : i \in 1..Len(QueryTypes)} |->
        LET i == CHOOSE j \in 1..Len(QueryTypes) :
                     k \in {AvgName[j], CountName[j]}
        IN IF k = AvgName[i] THEN TypeAvgTime(w, i) ELSE w[i].count]

\* Saturated with the threshold itself counted as saturated.
Saturated_AtThreshold(a) == a * 10 >= connection_pool_size * 8

\* self.active_connections > self.connection_pool_size * 0.8
Saturated(a) == a * 10 > connection_pool_size * 8

\* random.uniform(10, 100) above the threshold and random.uniform(0, 5)
\* otherwise, the ends of each range, in hundredths of a millisecond.
WaitDraws(a) ==
    IF Saturated(a) THEN {10 * Scale, 100 * Scale} ELSE {0, 5 * Scale}

\* The denominators of one call: max(query_count, 1) of each type,
\* max(total_queries, 1), the pool size and the transactions.
DbDenominators(w, transactions) ==
    {Max(w[i].count, 1) : i \in 1..Len(w)}
      \cup {Max(Total(w, Len(w), "count"), 1), connection_pool_size,
            transactions}

\* simulate_operations of the database provider, for one set of draws: the
\* queries of each type, the change of the connections, the connection
\* errors and the query errors, the wait for a connection, the
\* transactions and the share of them that commits (in hundredths).
DbCycle ==
    /\ unit = "database"
    /\ \E w \in Workloads :
       \E per_type \in {PerType(w)} :
       \E change \in {-3, -1, 0, 1, 5},
          errors \in {<<0, 0>>, <<0, 10>>, <<5, 10>>},
          trans \in {<<50, 92>>, <<300, 98>>} :
       \E connections \in {ClampConnections(active_connections, change)} :
       \E wait \in WaitDraws(connections) :
        LET connection_errors == errors[1]
            query_errors == errors[2]
            total_queries == Total(w, Len(w), "count")
            total_time == Total(w, Len(w), "time")
            slow_queries == Total(w, Len(w), "slow")
            avg_time == (total_time * Scale) \div Max(total_queries, 1)
            transactions == trans[1]
            commits == (transactions * trans[2]) \div 100
        IN
        /\ active_connections' = connections
        /\ lastBatch' =
             IF 0 \in DbDenominators(w, transactions)
             THEN ZeroDivisionError ELSE
             per_type @@
             [total_queries |-> total_queries,
              average_query_time_ms |-> avg_time,
              slow_queries_count |-> slow_queries,
              slow_query_percentage |->
                Pct(slow_queries, Max(total_queries, 1)),
              active_connections |-> connections,
              connection_pool_utilization |->
                Pct(connections, connection_pool_size),
              max_connections |-> connection_pool_size,
              connection_errors |-> connection_errors,
              connection_wait_time_ms |-> wait,
              transactions_total |-> transactions,
              transactions_committed |-> commits,
              transaction_success_rate |-> Pct(commits, transactions),
              query_errors |-> query_errors,
              database_health_score |->
                HealthScore(avg_time, query_errors + connection_errors)]
    /\ UNCHANGED <<unit, pod_states, now, hostFault, threadVars>>

\* ---------------------------------------------------- StorageSimulator
\* The provider keeps no state of its own between two calls.
StorageConstructed ==
    /\ unit = "storage"
    /\ active_connections = 5
    /\ pod_states = [n \in BaselineNames |-> Pod("Running", 0, 10, 100)]
    /\ now = 0
    /\ lastBatch = EmptyDict
    /\ hostFault = NoFault

\* max(0, min(100, (upload_success + api_success + security_score) / 3))
StoragePerformanceScore(upload_success, api_error_rate, attempts) ==
    Max(0, Min(100 * Scale,
               (upload_success + (100 * Scale - api_error_rate)
                  + (100 * Scale - attempts * 10 * Scale)) \div 3))

\* simulate_operations of the storage provider, for one set of draws: the
\* uploads and the failed ones, the downloads and the cache hits, the hot
\* and cool tier shares, the API calls and the errors among them, and the
\* unauthorized access attempts.
\* The denominators of one call: total_uploads, total_downloads, and
\* total_api_calls on the branch that divides by it.
StorageDenominators(total_uploads, total_downloads, total_api_calls) ==
    {total_uploads, total_downloads}
      \cup (IF total_api_calls > 0 THEN {total_api_calls} ELSE {})

StorageCycle ==
    /\ unit = "storage"
    /\ \E uploads \in {<<10, 0>>, <<10, 10>>, <<50, 2>>},
          downloads \in {<<20, 0>>, <<20, 20>>, <<100, 40>>},
          hot \in {20 * Scale, 40 * Scale}, cool \in {30 * Scale, 50 * Scale},
          api \in {<<176, 0>>, <<176, 5>>, <<840, 5>>},
          attempts \in {0, 3} :
        LET upload_success_rate == Pct(uploads[1] - uploads[2], uploads[1])
            api_error_rate == IF api[1] > 0 THEN Pct(api[2], api[1]) ELSE 0
        IN
        lastBatch' =
          IF 0 \in StorageDenominators(uploads[1], downloads[1], api[1])
          THEN ZeroDivisionError ELSE
          [uploads_total |-> uploads[1],
           uploads_failed |-> uploads[2],
           upload_success_rate |-> upload_success_rate,
           downloads_total |-> downloads[1],
           download_cache_hits |-> downloads[2],
           download_cache_hit_rate |-> Pct(downloads[2], downloads[1]),
           hot_tier_percentage |-> hot,
           cool_tier_percentage |-> cool,
           archive_tier_percentage |-> 100 * Scale - hot - cool,
           total_api_calls |-> api[1],
           api_errors |-> api[2],
           api_error_rate |-> api_error_rate,
           unauthorized_access_attempts |-> attempts,
           storage_performance_score |->
             StoragePerformanceScore(upload_success_rate, api_error_rate,
                                     attempts)]
    /\ UNCHANGED <<unit, pod_states, now, active_connections, hostFault,
                   threadVars>>

\* ---------------------------------------------------- NetworkSimulator
NetworkConstructed ==
    /\ unit = "network"
    /\ active_connections = 5
    /\ pod_states = [n \in BaselineNames |-> Pod("Running", 0, 10, 100)]
    /\ now = 0
    /\ lastBatch = EmptyDict
    /\ hostFault = NoFault

\* max(0, 100 - penalty), for each of the three parts of the health score.
SubScore(penalty) == Max(0, 100 * Scale - penalty)

\* The denominators of one call: total_measurements, total_backends, the
\* length of requests_per_backend on the branch that divides by it, the
\* CDN requests and the origin bandwidth.
NetworkDenominators(measurements, total, healthy, requests, bandwidth) ==
    {measurements, total, requests, bandwidth}
      \cup (IF healthy > 0 THEN {healthy} ELSE {})

\* simulate_operations of the network provider, for one set of draws: the
\* latency measurements and the spikes among them, the mean latency, the
\* packet loss rate in thousandths of a percent, the connection errors,
\* the backends and the unhealthy ones, the CDN requests with the share of
\* cache hits in hundredths, and the origin bandwidth in MB.
NetworkCycle ==
    /\ unit = "network"
    /\ \E latency \in {<<50, 0, 1 * Scale>>, <<50, 50, 300 * Scale>>,
                         <<150, 7, 15 * Scale>>},
          loss_milli \in {1, 100},
          errors \in {0, 1, 7},
          backends \in {<<3, 0>>, <<3, 1>>, <<8, 1>>},
          cdn \in {<<1000, 70, 10000>>, <<5000, 85, 50000>>} :
        LET overall_avg_latency == latency[3]
            origin_bandwidth == cdn[3]
            cache_hits == (cdn[1] * cdn[2]) \div 100
            cache_misses == cdn[1] - cache_hits
            cdn_bandwidth == (origin_bandwidth * cache_misses) \div cdn[1]
            bandwidth_saved == origin_bandwidth - cdn_bandwidth
        IN
        lastBatch' =
          IF 0 \in NetworkDenominators(latency[1], backends[1],
                                       backends[1] - backends[2], cdn[1],
                                       origin_bandwidth)
          THEN ZeroDivisionError ELSE
          [overall_avg_latency_ms |-> overall_avg_latency,
           high_latency_events |-> latency[2],
           latency_spike_rate |-> Pct(latency[2], latency[1]),
           packet_loss_rate_milli |-> loss_milli,
           total_connection_errors |-> errors,
           total_backend_servers |-> backends[1],
           healthy_backend_servers |-> backends[1] - backends[2],
           backend_health_percentage |->
             Pct(backends[1] - backends[2], backends[1]),
           cdn_total_requests |-> cdn[1],
           cdn_cache_hits |-> cache_hits,
           cdn_hit_rate |-> Pct(cache_hits, cdn[1]),
           bandwidth_savings_percent |-> Pct(bandwidth_saved, origin_bandwidth),
           network_health_score |->
             (SubScore(overall_avg_latency \div 2)
                + SubScore(loss_milli * Scale)
                + SubScore(errors * 20 * Scale)) \div 3]
    /\ UNCHANGED <<unit, pod_states, now, active_connections, hostFault,
                   threadVars>>

\* -------------------------------------------------------- SystemMonitor
\* The categories of get_metrics whose reads can fail, in call order.
Categories == <<"cpu", "memory", "disk", "network", "process", "system">>

\* The reads of each category in the order of its try block, each with the
\* metrics stored once it has returned (on a Linux host, where the
\* frequency, the load averages, the I/O counters and the descriptor count
\* are available).
Reads ==
    [cpu |->
       << {"cpu_usage_percent"},
          {"cpu_core_count", "cpu_max_core_usage", "cpu_min_core_usage",
           "cpu_avg_core_usage"},
          {"cpu_frequency_mhz", "cpu_max_frequency_mhz"},
          {"load_avg_1min", "load_avg_5min", "load_avg_15min"},
          {"cpu_time_user", "cpu_time_system", "cpu_time_idle"} >>,
     memory |->
       << {"memory_total_gb", "memory_used_gb", "memory_available_gb",
           "memory_usage_percent", "memory_free_gb"},
          {"swap_total_gb", "swap_used_gb", "swap_free_gb",
           "swap_usage_percent"},
          {"process_memory_rss_mb", "process_memory_vms_mb"},
          {"process_memory_percent"} >>,
     disk |->
       << {"disk_total_gb", "disk_used_gb", "disk_free_gb",
           "disk_usage_percent"},
          {"disk_read_bytes", "disk_write_bytes", "disk_read_count",
           "disk_write_count", "disk_read_time_ms", "disk_write_time_ms"} >>,
     network |->
       << {"network_bytes_sent", "network_bytes_recv",
           "network_packets_sent", "network_packets_recv",
           "network_errors_in", "network_errors_out", "network_drops_in",
           "network_drops_out"},
          {"network_connections_total"} >>,
     process |->
       << {"process_cpu_percent"},
          {"process_thread_count"},
          {"process_open_files"},
          {"process_status"},
          {"process_uptime_seconds"} >>,
     system |->
       << {"system_uptime_seconds", "system_uptime_hours"},
          {"system_process_count"},
          {"system_user_count"} >>]

\* simulate_application_metrics, which reads nothing.
AppNames ==
    {"app_response_time_ms", "app_requests_per_second",
     "app_error_rate_percent", "app_cache_hit_rate", "app_cache_size_mb",
     "app_queue_depth", "app_queue_processing_rate"}

\* Every metric of category c.
NamesOf(c) == UNION {Reads[c][k] : k \in 1..Len(Reads[c])}

\* The dict get_<c>_metrics returns: every metric, or, when the read
\* fault[2] of c raised an Exception, those stored before it; the except
\* clause logs the error and the dict filled so far is returned.
Stored(c, fault) ==
    IF fault[1] = c
      THEN UNION {Reads[c][k] : k \in 1..(fault[2] - 1)}
      ELSE NamesOf(c)

\* all_metrics.get(name, 0)
Get(d, name) == IF name \in DOMAIN d THEN d[name] ELSE 0

HostConstructed ==
    /\ unit = "system"
    /\ active_connections = 5
    /\ pod_states = [n \in BaselineNames |-> Pod("Running", 0, 10, 100)]
    /\ now = 0
    /\ lastBatch = EmptyDict
    /\ hostFault = NoFault

\* The points at which one read of one category fails.
FaultPoints ==
    {NoFault} \cup
    UNION {{<<Categories[i], k>> : k \in 1..Len(Reads[Categories[i]])} :
             i \in 1..Len(Categories)}

\* get_metrics of the host provider, for one failing read (or none) and
\* one set of usage percentages read from the OS.
HostCycle ==
    /\ unit = "system"
    /\ \E fault \in FaultPoints,
          cpu \in {0, 100 * Scale}, memory \in {0, 63 * Scale},
          disk \in {40 * Scale, 100 * Scale} :
        LET names == UNION {Stored(Categories[i], fault) :
                              i \in 1..Len(Categories)} \cup AppNames
            all == [n \in names |->
                      CASE n = "cpu_usage_percent" -> cpu
                        [] n = "memory_usage_percent" -> memory
                        [] n = "disk_usage_percent" -> disk
                        [] OTHER -> 0]
            system_health ==
              (SubScore(Get(all, "cpu_usage_percent"))
                 + SubScore(Get(all, "memory_usage_percent"))
                 + SubScore(Get(all, "disk_usage_percent"))) \div 3
        IN
        /\ lastBatch' =
             [n \in names \cup {"system_health_score"} |->
                 IF n = "system_health_score" THEN system_health ELSE all[n]]
        /\ hostFault' = fault
    /\ UNCHANGED <<unit, pod_states, now, active_connections, threadVars>>

\* The provider under observation after its construction.
ProviderConstructed ==
    \/ K8sConstructed
    \/ DbConstructed
    \/ StorageConstructed
    \/ NetworkConstructed
    \/ HostConstructed

InitProv ==
    /\ WorkerIdle(FALSE)
    /\ interval = 30
    /\ forced = "none"
    /\ ProviderConstructed

NextProv ==
    \/ K8sCycle
    \/ DbCycle
    \/ StorageCycle
    \/ NetworkCycle
    \/ HostCycle

\* One provider, called again and again as the cycles of the worker do.
SpecProv == InitProv /\ [][NextProv]_vars

\* ------------------------------------------------------------------ C13
\* C13: the pod-state table never loses an entry, so its size never
\* decreases from one cycle to the next, and the state of every pod in it
\* is Pending, Running or Failed.
C13_PodTableGrowsOnly ==
    /\ [](\A n \in DOMAIN pod_states :
             pod_states[n].state \in {"Pending", "Running", "Failed"})
    /\ [][/\ DOMAIN pod_states \subseteq DOMAIN pod_states'
          /\ Cardinality(DOMAIN pod_states')
               >= Cardinality(DOMAIN pod_states)]_vars

C13_Witness ==
    /\ unit = "kubernetes"
    /\ Cardinality(DOMAIN pod_states) = BaselinePods + 2
    /\ InState(pod_states, "Failed") # {}
    /\ InState(pod_states, "Pending") # {}
    /\ InState(pod_states, "Running") # {}

\* ------------------------------------------------------------------ C14
\* C14: the database provider's active_connections stays within
\* [1, 20] whatever sequence of changes from -3 to 5 is drawn, and the
\* connection_pool_utilization it exports is above 0 and at most 100.
C14_ConnectionsWithinPool ==
    unit = "database" =>
        /\ active_connections >= 1
        /\ active_connections <= 20
        /\ "connection_pool_utilization" \in DOMAIN lastBatch =>
              /\ lastBatch.active_connections = active_connections
              /\ lastBatch.connection_pool_utilization > 0
              /\ lastBatch.connection_pool_utilization <= 100 * Scale

C14_Witness ==
    /\ unit = "database"
    /\ active_connections = 1
    /\ "connection_pool_utilization" \in DOMAIN lastBatch
    /\ lastBatch.connection_pool_utilization = 5 * Scale

\* ------------------------------------------------------------------ C17
\* C17: when a read of one category of the host provider has failed,
\* get_metrics has returned a batch that holds every metric of every other
\* category and none of the metrics of the failing category.
C17_FailedCategoryOmitted ==
    (unit = "system" /\ hostFault # NoFault) =>
        /\ "system_health_score" \in DOMAIN lastBatch
        /\ \A i \in 1..Len(Categories) :
              Categories[i] # hostFault[1] =>
                  NamesOf(Categories[i]) \subseteq DOMAIN lastBatch
        /\ NamesOf(hostFault[1]) \cap DOMAIN lastBatch = {}

\* ------------------------------------------------------------------ C15
\* The score each provider adds to its batch.
ScoreOf ==
    [kubernetes |-> "cluster_health_score",
     database |-> "database_health_score",
     storage |-> "storage_performance_score",
     network |-> "network_health_score",
     system |-> "system_health_score"]

\* C15: every batch a provider returns holds the provider's health or
\* performance score, and that score is within [0, 100] (here in
\* hundredths).
C15_ScoresWithinRange ==
    (unit \in Providers /\ DOMAIN lastBatch # {}) =>
        /\ ScoreOf[unit] \in DOMAIN lastBatch
        /\ lastBatch[ScoreOf[unit]] >= 0
        /\ lastBatch[ScoreOf[unit]] <= 100 * Scale

C15_Witness ==
    /\ unit = "database"
    /\ "database_health_score" \in DOMAIN lastBatch
    /\ lastBatch.average_query_time_ms = 1000 * Scale
    /\ lastBatch.query_errors = 10
    /\ lastBatch.database_health_score = 0

\* ------------------------------------------------------------------ C16
\* The exported metrics that are percentages or rates given as a percent.
PercentNames ==
    {"upload_success_rate", "download_cache_hit_rate", "api_error_rate",
     "hot_tier_percentage", "cool_tier_percentage",
     "archive_tier_percentage", "slow_query_percentage",
     "transaction_success_rate", "latency_spike_rate",
     "backend_health_percentage", "cdn_hit_rate",
     "bandwidth_savings_percent"}

\* C16: whatever is drawn, each percentage and each rate given as a
\* percent in a returned batch is within [0, 100] (here in hundredths).
C16_PercentagesWithinRange ==
    \A n \in PercentNames \cap DOMAIN lastBatch :
        lastBatch[n] >= 0 /\ lastBatch[n] <= 100 * Scale

C16_Witness ==
    /\ unit = "storage"
    /\ "upload_success_rate" \in DOMAIN lastBatch
    /\ lastBatch.upload_success_rate = 0
    /\ lastBatch.download_cache_hit_rate = 100 * Scale
    /\ lastBatch.archive_tier_percentage = 10 * Scale
    /\ lastBatch.api_error_rate > 0

\* ------------------------------------------------------------------ C18
\* C18: no call of send_metric_to_newrelic or send_event_to_newrelic lets
\* an exception reach run_simulation_cycle: the except clause of the cycle
\* is entered only after a provider has raised, nothing leaves the cycle
\* as an exception, and without a raising provider no TelemetryError is
\* sent, whatever the backend does. When the sink is not configured no
\* call has an effect on the backend.
C18_SinkNeverRaises ==
    /\ pc = "handler" => raisedBy # "none"
    /\ pc # "caught"
    /\ ~escaped
    /\ forced = "none" => errorEvents = 0
    /\ recorded <= Len(sent)
    /\ ~app => (recorded = 0 /\ evRecorded = 0)

C18_Witness ==
    /\ app
    /\ CycleSucceeded
    /\ forced = "none"
    /\ Len(sent) = 6
    /\ recorded = 3
    /\ evRecorded = 0
    /\ errorEvents = 0

\* ============================================================== start-up
\* TelemetryService.start: the configuration is read from the environment
\* and validated, then the worker is constructed and run on its thread.

\* The values of the environment that are followed: MONITORING_INTERVAL as
\* int() gives it, the variances as float() gives them, LOG_LEVEL as
\* written, and the licence key.
EnvIntervals == {-5, 0, 1, 30}

EnvVariances == {Num(-1), Num(0), Num(1000), Num(1001), NaN}

EnvLevels == {"info", "INFO", "VERBOSE"}

EnvKeys == {"", "key"}

\* What the environment holds for the five flags: nothing but the default,
\* false for all, a mix of spellings, and 1 for all, which is not "true".
EnvFlags ==
    {[i \in 1..Len(FlagNames) |-> "true"],
     [i \in 1..Len(FlagNames) |-> "false"],
     [i \in 1..Len(FlagNames) |-> IF i = 1 THEN "False" ELSE "TRUE"],
     [i \in 1..Len(FlagNames) |-> "1"]}

\* str.upper on the levels of EnvLevels.
Upper(s) == IF s = "info" THEN "INFO" ELSE s

\* if self.MONITORING_INTERVAL < 1: error
IntervalOk(i) == ~(i < 1)

\* VarianceOk written as the negation of (x < 0 or x > 1), which nan passes.
VarianceOk_Outside(v) == v[1] = "nan" \/ (0 <= v[2] /\ v[2] <= 1000)

\* if not 0 <= x <= 1: error; every comparison with nan is false.
VarianceOk(v) == v[1] = "num" /\ 0 <= v[2] /\ v[2] <= 1000

\* if self.LOG_LEVEL not in valid_log_levels: error
LevelOk(l) == l \in {"DEBUG", "INFO", "WARNING", "ERROR", "CRITICAL"}

\* Config.validate returns instead of raising ValueError.
Validates(c) ==
    /\ IntervalOk(c.MONITORING_INTERVAL)
    /\ VarianceOk(c.ERROR_RATE_VARIANCE)
    /\ VarianceOk(c.PERFORMANCE_VARIANCE)
    /\ LevelOk(c.LOG_LEVEL)

\* The service before start(): no configuration read, no worker.
InitStart ==
    /\ WorkerFields(FALSE)
    /\ ProvidersIdle
    /\ interval = 0
    /\ forced \in {"none", "any"}
    /\ svc = "start"
    /\ worker = FALSE
    /\ cfg = DefaultConfig

\* config = Config()
LoadConfig ==
    /\ svc = "start"
    /\ \E i \in EnvIntervals, e \in EnvVariances, p \in EnvVariances,
          l \in EnvLevels, k \in EnvKeys, f \in EnvFlags :
        cfg' = [MONITORING_INTERVAL |-> i,
                ERROR_RATE_VARIANCE |-> e,
                PERFORMANCE_VARIANCE |-> p,
                LOG_LEVEL |-> Upper(l),
                NEW_RELIC_LICENSE_KEY |-> k] @@ Flags(f)
    /\ svc' = "loaded"
    /\ UNCHANGED <<worker, app, provVars, workerVars, running, interval,
                   forced, stopVars, detailVars>>

\* config.validate(): it returns, or its ValueError is raised in start().
Validate ==
    /\ svc = "loaded"
    /\ svc' = IF Validates(cfg) THEN "validated" ELSE "failed"
    /\ UNCHANGED <<cfg, worker, app, provVars, workerVars, running, interval,
                   forced, stopVars, detailVars>>

\* self.worker = TelemetryWorker(config): the worker keeps the
\* configuration, and its sink is set up when a licence key is given.
ConstructWorker ==
    /\ svc = "validated"
    /\ worker' = TRUE
    /\ interval' = cfg.MONITORING_INTERVAL
    /\ app' = (cfg.NEW_RELIC_LICENSE_KEY # "")
    /\ svc' = "constructed"
    /\ UNCHANGED <<cfg, provVars, workerVars, running, forced, stopVars,
                   detailVars>>

\* worker_thread.start()
StartThread ==
    /\ svc = "constructed"
    /\ svc' = "running"
    /\ UNCHANGED <<cfg, worker, app, provVars, workerVars, running, interval,
                   forced, stopVars, detailVars>>

\* except Exception: self.shutdown(), which stops the worker if there is
\* one and calls sys.exit(0).
AbortStart ==
    /\ svc = "failed"
    /\ svc' = "exited"
    /\ UNCHANGED <<cfg, worker, app, provVars, workerVars, running, interval,
                   forced, stopVars, detailVars>>

\* The steps of run() on the worker thread, once it is started.
WorkerThread == svc = "running" /\ Worker

NextStart ==
    \/ LoadConfig
    \/ Validate
    \/ ConstructWorker
    \/ StartThread
    \/ AbortStart
    \/ WorkerThread

\* The service from start() on, with any configuration in the environment.
SpecStart == InitStart /\ [][NextStart]_vars

\* ------------------------------------------------------------------ C19
\* A variance within [0, 1], in thousandths.
C19_InRange == {<<"num", x>> : x \in 0..1000}

\* A value the validation is to reject is in the configuration.
C19_Invalid ==
    \/ cfg.MONITORING_INTERVAL < 1
    \/ cfg.ERROR_RATE_VARIANCE \notin C19_InRange
    \/ cfg.PERFORMANCE_VARIANCE \notin C19_InRange
    \/ cfg.LOG_LEVEL \notin {"DEBUG", "INFO", "WARNING", "ERROR", "CRITICAL"}

\* C19: once validate() has run on a configuration with an interval below
\* 1, a variance outside [0, 1] or an unknown log level, start-up is
\* aborted: no worker is constructed and no cycle is run. Where a worker
\* exists or a cycle has begun, none of these values is invalid, and the
\* worker's interval is the validated one.
C19_NoStartWithInvalidConfig ==
    /\ (svc \notin {"start", "loaded"} /\ C19_Invalid) =>
          /\ svc \in {"failed", "exited"}
          /\ ~worker
          /\ ~running
          /\ pc = "idle"
          /\ cycle_count = 0
    /\ (worker \/ cycle_count >= 1) =>
          /\ ~C19_Invalid
          /\ interval = cfg.MONITORING_INTERVAL
          /\ interval >= 1

C19_Witness ==
    /\ svc = "exited"
    /\ cfg.MONITORING_INTERVAL = 30
    /\ cfg.ERROR_RATE_VARIANCE = NaN
    /\ cfg.PERFORMANCE_VARIANCE = Num(0)
    /\ cfg.LOG_LEVEL = "INFO"
    /\ ~worker
    /\ cycle_count = 0

\* ------------------------------------------------------------------ C21
\* C21: a pod created by the cluster provider is Running at the end of the
\* cycle that created it: between two cycles no pod is Pending.
C21_NoPendingBetweenCycles ==
    unit = "kubernetes" => InState(pod_states, "Pending") = {}

\* ------------------------------------------------------------------ C22
\* C22: in a cycle of the cluster provider a pod becomes Failed only from
\* Running, each failure adds exactly 1 to the pod's restart_count, which
\* never decreases; a pod that is Failed when the cycle begins is not
\* restarted by it; and pod_failures_total is the number of pods that
\* failed in the cycle, restarted or not.
C22_FailureAccounting ==
    [][unit = "kubernetes" =>
         /\ \A n \in DOMAIN pod_states :
               /\ n \in DOMAIN pod_states'
               /\ pod_states'[n].restart_count - pod_states[n].restart_count
                    \in {0, 1}
               /\ pod_states'[n].restart_count = pod_states[n].restart_count + 1
                    => pod_states[n].state = "Running"
               /\ (pod_states'[n].state = "Failed"
                     /\ pod_states[n].state # "Failed")
                    => /\ pod_states[n].state = "Running"
                       /\ pod_states'[n].restart_count
                            = pod_states[n].restart_count + 1
               /\ pod_states[n].state = "Failed"
                    => /\ pod_states'[n].state = "Failed"
                       /\ pod_states'[n].restart_count
                            = pod_states[n].restart_count
         /\ \A n \in DOMAIN pod_states' \ DOMAIN pod_states :
               pod_states'[n].restart_count = 0
         /\ lastBatch'.pod_failures_total =
               Cardinality({n \in DOMAIN pod_states :
                              pod_states'[n].restart_count
                                = pod_states[n].restart_count + 1})]_vars

C22_Witness ==
    /\ unit = "kubernetes"
    /\ "pod_failures_total" \in DOMAIN lastBatch
    /\ lastBatch.pod_failures_total = 2
    /\ Cardinality(InState(pod_states, "Failed")) = 1
    /\ \A n \in BaselineNames : pod_states[n].restart_count >= 1

\* ---------------------------------------------------------------- C23
InRange(pod) ==
    /\ pod.cpu_usage >= 5 /\ pod.cpu_usage <= 95
    /\ pod.memory_usage >= 50 /\ pod.memory_usage <= 1000

C24_WaitRegime ==
    (unit = "database" /\ "connection_wait_time_ms" \in DOMAIN lastBatch) =>
        /\ lastBatch.active_connections = active_connections
        /\ IF lastBatch.active_connections > 16
             THEN /\ lastBatch.connection_wait_time_ms >= 10 * Scale
                  /\ lastBatch.connection_wait_time_ms <= 100 * Scale
             ELSE /\ lastBatch.connection_wait_time_ms >= 0
                  /\ lastBatch.connection_wait_time_ms <= 5 * Scale

\* The pool at exactly 80% with the longest wait of the low range.
C24_Witness ==
    /\ unit = "database"
    /\ "connection_wait_time_ms" \in DOMAIN lastBatch
    /\ lastBatch.active_connections = 16
    /\ lastBatch.connection_pool_utilization = 80 * Scale
    /\ lastBatch.connection_wait_time_ms = 5 * Scale

\* ---------------------------------------------------------------- C25
\* Two batches of the same provider that follow each other and hold the
\* same metrics apart from the score.
SameOtherMetrics ==
    /\ DOMAIN lastBatch # {}
    /\ DOMAIN lastBatch' = DOMAIN lastBatch
    /\ \A k \in DOMAIN lastBatch \ {ScoreOf[unit]} :
          lastBatch'[k] = lastBatch[k]

OwnAvgTime(w, i) ==
    IF w[i].count = 0 THEN 0 ELSE (w[i].time * Scale) \div w[i].count

\* C26: every batch of the database provider is the batch of some drawn
\* samples in which each <type>_avg_time_ms is the sum of the times of
\* that type's samples divided by that type's count, 0 for a type without
\* samples, whatever the other types drew and in whatever order.
C26_PerTypeAverage ==
    (unit = "database" /\ "total_queries" \in DOMAIN lastBatch) =>
        \E w \in Workloads :
            /\ \A i \in 1..Len(QueryTypes) :
                  /\ lastBatch[CountName[i]] = w[i].count
                  /\ lastBatch[AvgName[i]] = OwnAvgTime(w, i)
            /\ lastBatch.total_queries = Total(w, Len(w), "count")
            /\ lastBatch.average_query_time_ms =
                 (Total(w, Len(w), "time") * Scale)
                   \div lastBatch.total_queries

\* ---------------------------------------------------------------- C27
\* C27: whatever is drawn and whatever the state of the provider, no call
\* of a synthetic provider ends in a division by zero: what the call
\* leaves is a batch, never the exception, also when no pod is Running at
\* the start of the call, when a query type has no sample and when no
\* upload has failed.
C27_NoZeroDenominator ==
    unit \in Providers \ {"system"} => lastBatch # ZeroDivisionError

\* A cluster call that started without a Running pod: nothing failed in
\* it, every baseline pod is Failed, and the rate and the means are 0.
C27_Witness ==
    /\ unit = "kubernetes"
    /\ "pod_restart_rate" \in DOMAIN lastBatch
    /\ \A n \in BaselineNames : pod_states[n].state = "Failed"
    /\ lastBatch.pod_failures_total = 0
    /\ lastBatch.pod_restart_rate = 0
    /\ lastBatch.total_running_pods = 0
    /\ lastBatch.average_cpu_usage_percent = 0

\* ---------------------------------------------------------------- C28
\* The position of provider p in the fixed order.
IndexOf(p) == CHOOSE i \in 1..Len(Order) : Order[i] = p

RECURSIVE SentUpTo(_)
\* What the sink has been given once the first k providers have returned.
SentUpTo(k) ==
    IF k = 0 THEN <<>> ELSE SentUpTo(k - 1) \o Forwarded(k, DefaultBatch)

\* C28: from the moment the k-th provider raises to the start of the next
\* cycle, the providers called are the first k, the batches of the k - 1
\* before it are the ones forwarded and what the sink was given stays as it
\* is, no telemetry_cycle event and no TelemetryCycle summary is emitted,
\* and the pod table and the connection gauge keep what the providers
\* before it did to them.
C28_RaiseEndsTheCycle ==
    /\ [](raisedBy # "none" =>
            /\ calls = SubSeq(Order, 1, IndexOf(raisedBy))
            /\ batches = {Order[i] : i \in 1..(IndexOf(raisedBy) - 1)}
            /\ forwarded = batches
            /\ sent = SentUpTo(IndexOf(raisedBy) - 1)
            /\ cycleData = NoBatches
            /\ metricsCollected = -1)
    /\ [][raisedBy' # "none" =>
            /\ cycleEvents' = cycleEvents
            /\ summaryEvents' = summaryEvents
            /\ sent' = sent
            /\ pod_states' = pod_states
            /\ active_connections' = active_connections]_vars

\* The first cycle has ended after the third provider raised: the sink
\* holds the metrics of the first two, the connections the database
\* provider opened are open and the pod the cluster provider failed is
\* Failed, and the one event of the cycle is the TelemetryError.
C28_Witness ==
    /\ unit = "cycle"
    /\ pc = "sleep"
    /\ cycle_count = 1
    /\ raisedBy = "storage"
    /\ Len(sent) = 2
    /\ active_connections = 10
    /\ InState(pod_states, "Failed") # {}
    /\ errorEvents = 1
    /\ cycleEvents = 0
    /\ summaryEvents = 0

\* ---------------------------------------------------------------- C29
\* C29: over every cycle of the cluster provider a pod that was Failed
\* before it is Failed after it and a pod that was Pending before it is
\* Pending after it, so that no pod becomes Running: the Running pods
\* after the cycle are among those before it, and the total_running_pods
\* of a batch, the number of Running pods the cycle leaves, is at most
\* that of the batch before.
C29_FailedAndPendingStay ==
    [][unit = "kubernetes" =>
          /\ \A n \in DOMAIN pod_states :
                /\ n \in DOMAIN pod_states'
                /\ pod_states[n].state \in {"Failed", "Pending"} =>
                      pod_states'[n].state = pod_states[n].state
          /\ InState(pod_states', "Running")
               \subseteq InState(pod_states, "Running")
          /\ lastBatch'.total_running_pods
               = Cardinality(InState(pod_states', "Running"))
          /\ "total_running_pods" \in DOMAIN lastBatch =>
                lastBatch'.total_running_pods
                  <= lastBatch.total_running_pods]_vars

\* A pod created at time 0 is Pending at time 1, a baseline pod is Failed,
\* and the last batch counts one Running pod.
C29_Witness ==
    /\ unit = "kubernetes"
    /\ now = 1
    /\ <<"dynamic-pod", 0>> \in DOMAIN pod_states
    /\ pod_states[<<"dynamic-pod", 0>>].state = "Pending"
    /\ InState(pod_states, "Failed") # {}
    /\ "total_running_pods" \in DOMAIN lastBatch
    /\ lastBatch.total_running_pods = 1

\* ---------------------------------------------------------------- C30
\* C30: whatever the five enable flags of the configuration are, a cycle
\* in which no provider raised has called the five providers in the fixed
\* order, each of them has returned its batch and the metrics of each have
\* been given to the sink; the flags take part in nothing but the reading
\* of the configuration.
C30_FlagsIgnored ==
    /\ worker =>
          {FlagNames[i] : i \in 1..Len(FlagNames)} \subseteq DOMAIN cfg
    /\ (\/ pc \in {"log", "summary"}
        \/ pc \in {"sleep", "sleeping"} /\ raisedBy = "none") =>
          /\ calls = Order
          /\ batches = Providers
          /\ forwarded = Providers
          /\ Len(sent) = Len(Order)

\* A cycle has ended under a configuration that has every flag off.
C30_Witness ==
    /\ svc = "running"
    /\ \A i \in 1..Len(FlagNames) : cfg[FlagNames[i]] = FALSE
    /\ pc = "sleep"
    /\ cycle_count = 1
    /\ raisedBy = "none"
    /\ calls = Order
    /\ forwarded = Providers
    /\ summaryEvents = 1

====
